---- MODULE Spec2Model ----
(***************************************************************************)
(* packed_flags: packed lists of boolean flags.                            *)
(*                                                                         *)
(* The four fixed-width lists (B32, B64, B128, Bsize) are the same code    *)
(* over an unsigned word of a different width; the model instantiates that *)
(* code once, over a word of MAX_LENGTH bits.  Blong is modelled over      *)
(* words of INNER_SIZE bits.  Both widths are reduced so that every word   *)
(* value can be enumerated; all word arithmetic is carried out modulo      *)
(* 2^width, with the overflow behaviour of the build (overflow_checks).    *)
(***************************************************************************)
EXTENDS Integers, Sequences, FiniteSets, TLC

VARIABLES
    ls,                 \* the flag list the program operates on
    last,               \* the last operation: its name, arguments, the list before it, its result
    overflow_checks,    \* the build: TRUE = arithmetic overflow panics (debug), FALSE = it wraps (release)
    recording,          \* TRUE: last keeps the arguments and the list before; FALSE: only name and result
    src,                \* what the call was given besides ls: the flags of a constructor, the right-hand
                        \* side of an operator, the source of a conversion
    iter,               \* the iterator over ls (flag_iter::Iter), once one has been made
    seen                \* what the iterator has returned so far

vars == <<ls, last, overflow_checks, recording, src, iter, seen>>

-----------------------------------------------------------------------------
(* Bounds of the model *)

\* width in bits of the fixed-width list's word (B32: 32, B64: 64, B128: 128, Bsize: usize::BITS)
MAX_LENGTH == 4
\* width in bits of one word of Blong (usize::BITS)
INNER_SIZE == 2
\* the longest Blong the model lets grow
MaxLongLen == 4
\* the most backing words the model lets a Blong hold
MaxWords == 3

\* Blong::MAX_LENGTH is usize::MAX: above every length the model reaches
Blong_MAX_LENGTH == 2147483647

-----------------------------------------------------------------------------
(* Unsigned words of w bits *)

Pow2(n) == 2^n

\* bit i of x
Bit(x, i) == (x \div Pow2(i)) % 2

RECURSIVE SumBits(_, _)
SumBits(f, n) == IF n = 0 THEN 0 ELSE f[n-1] * Pow2(n-1) + SumBits(f, n-1)

\* x & y, x | y, x ^ y, !x on words of w bits
WordAnd(x, y, w) == SumBits([i \in 0..(w-1) |-> Bit(x, i) * Bit(y, i)], w)
WordOr(x, y, w)  == SumBits([i \in 0..(w-1) |-> IF Bit(x, i) + Bit(y, i) > 0 THEN 1 ELSE 0], w)
WordXor(x, y, w) == SumBits([i \in 0..(w-1) |-> (Bit(x, i) + Bit(y, i)) % 2], w)
WordNot(x, w)    == Pow2(w) - 1 - x

\* x << n and x >> n with n < w: the bits shifted out are dropped, never an overflow
WordShl(x, n, w) == (x * Pow2(n)) % Pow2(w)
WordShr(x, n)    == x \div Pow2(n)

\* A partial word result: the value, or a panic
Val(v)   == [panic |-> FALSE, v |-> v]
NoVal    == [panic |-> TRUE, v |-> 0]

\* x << n for any n: a shift count >= w is an overflow: it panics with overflow
\* checks on and is reduced modulo the width with them off
CheckedShl(x, n, w) ==
    IF n >= w
    THEN (IF overflow_checks THEN NoVal ELSE Val(WordShl(x, n % w, w)))
    ELSE Val(WordShl(x, n, w))

CheckedShr(x, n, w) ==
    IF n >= w
    THEN (IF overflow_checks THEN NoVal ELSE Val(WordShr(x, n % w)))
    ELSE Val(WordShr(x, n))

\* a sum of non-negative terms: above the word it panics or wraps
CheckedSum(raw, w) ==
    IF raw >= Pow2(w)
    THEN (IF overflow_checks THEN NoVal ELSE Val(raw % Pow2(w)))
    ELSE Val(raw)

\* a bool as a word (u32::from(flag))
FromBool(flag) == IF flag THEN 1 ELSE 0

-----------------------------------------------------------------------------
(* Results of operations *)

Ret(tag, b, x, y) == [tag |-> tag, b |-> b, x |-> x, y |-> y]
RetUnit      == Ret("Unit", FALSE, 0, 0)
RetPanic     == Ret("Panic", FALSE, 0, 0)
RetBool(b)   == Ret("Bool", b, 0, 0)
RetSome(b)   == Ret("Some", b, 0, 0)
RetNone      == Ret("None", FALSE, 0, 0)
RetOk        == Ret("Ok", FALSE, 0, 0)
\* FlagLsError::IndexOutOfBounds { idx, len }
RetIndexOutOfBounds(idx, len) == Ret("IndexOutOfBounds", FALSE, idx, len)
\* FlagLsError::MaximumLengthExceeded { mx_len, attempt_len }
RetMaximumLengthExceeded(mx_len, attempt_len) == Ret("MaximumLengthExceeded", FALSE, mx_len, attempt_len)

\* the outcome of an operation: the list it leaves and what it returns
Out(l, r)   == [ls |-> l, ret |-> r]
\* the operation panics, leaving the list as l
Panics(l)   == Out(l, RetPanic)

-----------------------------------------------------------------------------
(* The fixed-width list: struct B32 { inner: u32, len: usize } *)

Fixed(inner, len) == [kind |-> "fixed", inner |-> inner, len |-> len]

Fixed_default == Fixed(0, 0)

Fixed_lower_mask(point) ==
    IF point > MAX_LENGTH
    THEN NoVal
    ELSE LET one == CheckedShl(1, point, MAX_LENGTH)
         IN  IF one.panic THEN NoVal ELSE Val(one.v - 1)

Fixed_uper_mask(point) ==
    IF point > MAX_LENGTH
    THEN NoVal
    ELSE LET one == CheckedShl(1, point, MAX_LENGTH)
         IN  IF one.panic THEN NoVal
             ELSE CheckedSum((Pow2(MAX_LENGTH) - 1) - one.v + 1, MAX_LENGTH)

Fixed_set_len(l, new_len) ==
    IF ~(new_len <= MAX_LENGTH)
    THEN Panics(l)
    ELSE LET one == CheckedShl(1, new_len, MAX_LENGTH)
         IN  IF one.panic
             THEN Panics(Fixed(l.inner, new_len))
             ELSE Out(Fixed(WordAnd(l.inner, one.v - 1, MAX_LENGTH), new_len), RetUnit)

\* insert with the flags at and above index left where they are (no uper << 1)
Fixed_insert_NoShift(l, index, flag) ==
    IF index > l.len \/ l.len = MAX_LENGTH
    THEN Panics(l)
    ELSE LET um == Fixed_uper_mask(index)
             lm == Fixed_lower_mask(index)
         IN  IF um.panic \/ lm.panic
             THEN Panics(l)
             ELSE LET uper  == WordAnd(l.inner, um.v, MAX_LENGTH)
                      lower == WordAnd(l.inner, lm.v, MAX_LENGTH)
                      kept  == WordAnd(uper, WordNot(WordShl(1, index, MAX_LENGTH), MAX_LENGTH),
                                       MAX_LENGTH)
                  IN  Out(Fixed(kept + WordShl(FromBool(flag), index, MAX_LENGTH) + lower,
                                l.len + 1), RetUnit)

Fixed_insert(l, index, flag) ==
    IF index > l.len
    THEN Panics(l)
    ELSE IF l.len = MAX_LENGTH
    THEN Panics(l)
    ELSE LET um == Fixed_uper_mask(index)
             lm == Fixed_lower_mask(index)
         IN  IF um.panic \/ lm.panic
             THEN Panics(l)
             ELSE LET uper  == WordAnd(l.inner, um.v, MAX_LENGTH)
                      lower == WordAnd(l.inner, lm.v, MAX_LENGTH)
                      sum   == CheckedSum(WordShl(uper, 1, MAX_LENGTH)
                                          + WordShl(FromBool(flag), index, MAX_LENGTH)
                                          + lower, MAX_LENGTH)
                  IN  IF sum.panic
                      THEN Panics(l)
                      ELSE Out(Fixed(sum.v, l.len + 1), RetUnit)

Fixed_remove(l, index) ==
    IF index >= l.len
    THEN Panics(l)
    ELSE LET um == Fixed_uper_mask(index + 1)
             lm == Fixed_lower_mask(index)
         IN  IF um.panic \/ lm.panic
             THEN Panics(l)
             ELSE LET uper  == WordAnd(l.inner, um.v, MAX_LENGTH)
                      lower == WordAnd(l.inner, lm.v, MAX_LENGTH)
                      out   == Bit(l.inner, index)
                      sum   == CheckedSum(WordShr(uper, 1) + lower, MAX_LENGTH)
                  IN  IF sum.panic
                      THEN Panics(l)
                      ELSE Out(Fixed(sum.v, l.len - 1), RetBool(out = 1))

Fixed_clear(l) == Out(Fixed(0, 0), RetUnit)

Fixed_get(l, index) ==
    IF index < l.len THEN RetSome(Bit(l.inner, index) = 1) ELSE RetNone

\* Index<usize> for B32: assert!(index < self.len, ..), then (self.inner >> index) & 1
Fixed_index(l, index) ==
    IF ~(index < l.len)
    THEN RetPanic
    ELSE LET shifted == CheckedShr(l.inner, index, MAX_LENGTH)
         IN  IF shifted.panic THEN RetPanic ELSE RetBool(shifted.v % 2 = 1)

Fixed_set(l, index, flag) ==
    IF index < l.len
    THEN LET um == Fixed_uper_mask(index + 1)
             lm == Fixed_lower_mask(index)
         IN  IF um.panic \/ lm.panic
             THEN Panics(l)
             ELSE LET uper  == WordAnd(l.inner, um.v, MAX_LENGTH)
                      lower == WordAnd(l.inner, lm.v, MAX_LENGTH)
                      sum   == CheckedSum(uper + WordShl(FromBool(flag), index, MAX_LENGTH)
                                          + lower, MAX_LENGTH)
                  IN  IF sum.panic
                      THEN Panics(l)
                      ELSE Out(Fixed(sum.v, l.len), RetUnit)
    ELSE Panics(l)

Fixed_initialize(inner, len) ==
    LET len2 == IF len < MAX_LENGTH THEN len ELSE MAX_LENGTH
    IN  Fixed_set_len(Fixed(inner, len2), len2)

Max(a, b) == IF a > b THEN a ELSE b
Min(a, b) == IF a < b THEN a ELSE b

Fixed_bitand(l, rhs) == Out(Fixed(WordAnd(l.inner, rhs.inner, MAX_LENGTH), Max(l.len, rhs.len)), RetUnit)
Fixed_bitor(l, rhs)  == Out(Fixed(WordOr(l.inner, rhs.inner, MAX_LENGTH), Max(l.len, rhs.len)), RetUnit)
Fixed_bitxor(l, rhs) == Out(Fixed(WordXor(l.inner, rhs.inner, MAX_LENGTH), Max(l.len, rhs.len)), RetUnit)

Fixed_shl(l, rhs) ==
    LET s == CheckedShl(l.inner, rhs, MAX_LENGTH)
    IN  IF s.panic THEN Panics(l)
        ELSE Out(Fixed(s.v, Min(l.len + rhs, MAX_LENGTH)), RetUnit)

Fixed_shr(l, rhs) ==
    LET s == CheckedShr(l.inner, rhs, MAX_LENGTH)
    IN  IF s.panic THEN Panics(l)
        ELSE Out(Fixed(s.v, IF l.len > rhs THEN l.len - rhs ELSE 0), RetUnit)

Fixed_not(l) ==
    LET lm == Fixed_lower_mask(l.len)
    IN  IF lm.panic THEN Panics(l)
        ELSE Out(Fixed(WordAnd(WordNot(l.inner, MAX_LENGTH), lm.v, MAX_LENGTH), l.len), RetUnit)

Fixed_sub(l, rhs) ==
    Out(Fixed(WordAnd(l.inner, WordNot(rhs.inner, MAX_LENGTH), MAX_LENGTH), l.len), RetUnit)

-----------------------------------------------------------------------------
(* The long list: struct Blong { inner: Vec<usize>, len: usize } *)

Long(inner, len) == [kind |-> "long", inner |-> inner, len |-> len]

Blong_new == Long(<<>>, 0)

\* Vec indexing is 0-based: word i of v
Word(v, i) == v[i + 1]
\* v with word i replaced by x
WithWord(v, i, x) == [v EXCEPT ![i + 1] = x]
\* vec![0; n]
Zeros(n) == [i \in 1..n |-> 0]

Blong_lower_mask(inner_point) ==
    IF inner_point > INNER_SIZE
    THEN NoVal
    ELSE LET one == CheckedShl(1, inner_point, INNER_SIZE)
         IN  IF one.panic THEN NoVal ELSE Val(one.v - 1)

Blong_uper_mask(inner_point) ==
    IF inner_point > INNER_SIZE
    THEN NoVal
    ELSE LET one == CheckedShl(1, inner_point, INNER_SIZE)
         IN  IF one.panic THEN NoVal
             ELSE CheckedSum((Pow2(INNER_SIZE) - 1) - one.v + 1, INNER_SIZE)

Blong_set_len(l, new_len) ==
    LET t_len == (new_len + INNER_SIZE - 1) \div INNER_SIZE
        m_len == ((new_len + INNER_SIZE - 1) % INNER_SIZE) + 1
        sized == IF t_len > Len(l.inner) THEN l.inner \o Zeros(t_len - Len(l.inner))
                 ELSE IF t_len < Len(l.inner) THEN SubSeq(l.inner, 1, t_len)
                 ELSE l.inner
    IN  IF t_len > 0
        THEN LET one == CheckedShl(1, m_len, INNER_SIZE)
             IN  IF one.panic
                 THEN Panics(Long(sized, l.len))
                 ELSE Out(Long(WithWord(sized, t_len - 1,
                                        WordAnd(Word(sized, t_len - 1), one.v - 1, INNER_SIZE)),
                               new_len), RetUnit)
        ELSE Out(Long(sized, new_len), RetUnit)

\* the while loop of insert: from word t_index up, shift each word left by one
\* and bring in the top bit of the word below; gives the words and the last top bit
RECURSIVE Blong_insert_loop(_, _, _)
Blong_insert_loop(inner, t_index, top) ==
    IF t_index < Len(inner)
    THEN LET old  == top
             top2 == WordShr(Word(inner, t_index), INNER_SIZE - 1)
             sum  == CheckedSum(WordShl(Word(inner, t_index), 1, INNER_SIZE) + old, INNER_SIZE)
         IN  Blong_insert_loop(WithWord(inner, t_index, sum.v), t_index + 1, top2)
    ELSE [inner |-> inner, top |-> top]

Blong_insert(l, index, flag) ==
    IF index > l.len
    THEN Panics(l)
    ELSE LET t_index == index \div INNER_SIZE
             m_index == index % INNER_SIZE
         IN  IF t_index = l.len
             THEN Out(Long(Append(l.inner, FromBool(flag)), l.len + 1), RetUnit)
             ELSE IF t_index >= Len(l.inner)
             THEN Panics(l)
             ELSE LET lm == Blong_lower_mask(m_index)
                      um == Blong_uper_mask(m_index)
                  IN  IF lm.panic \/ um.panic
                      THEN Panics(l)
                      ELSE LET lower == WordAnd(Word(l.inner, t_index), lm.v, INNER_SIZE)
                               upper == WordAnd(Word(l.inner, t_index), um.v, INNER_SIZE)
                               top   == WordShr(Word(l.inner, t_index), INNER_SIZE - 1)
                               sum   == CheckedSum(WordShl(upper, 1, INNER_SIZE)
                                                   + WordShl(FromBool(flag), m_index, INNER_SIZE)
                                                   + lower, INNER_SIZE)
                               lp    == Blong_insert_loop(WithWord(l.inner, t_index, sum.v),
                                                          t_index + 1, top)
                               done  == IF m_index = INNER_SIZE - 1
                                        THEN Append(lp.inner, lp.top)
                                        ELSE lp.inner
                           IN  IF sum.panic
                               THEN Panics(l)
                               ELSE Out(Long(done, l.len + 1), RetUnit)

\* the while loop of remove: from the top word down to the word above t_index,
\* shift each word right by one and bring in the low bit of the word above
RECURSIVE Blong_remove_loop(_, _, _, _)
Blong_remove_loop(inner, top_idx, t_index, bot) ==
    IF top_idx > t_index
    THEN LET old  == bot
             bot2 == Word(inner, top_idx) % 2
             sum  == CheckedSum(WordShr(Word(inner, top_idx), 1)
                                + WordShl(old, INNER_SIZE - 1, INNER_SIZE), INNER_SIZE)
         IN  Blong_remove_loop(WithWord(inner, top_idx, sum.v), top_idx - 1, t_index, bot2)
    ELSE [inner |-> inner, bot |-> bot]

Blong_remove(l, index) ==
    IF index >= l.len
    THEN Panics(l)
    ELSE LET t_index == index \div INNER_SIZE
             m_indx  == index % INNER_SIZE
         IN  \* inner.len() - 1 underflows on an empty Vec: a panic, or a wrapped
             \* top_idx whose first use indexes out of bounds
             IF Len(l.inner) = 0 \/ t_index > Len(l.inner) - 1
             THEN Panics(l)
             ELSE LET lp    == Blong_remove_loop(l.inner, Len(l.inner) - 1, t_index, 0)
                      cur   == Word(lp.inner, t_index)
                      um    == Blong_uper_mask(m_indx + 1)
                      lm    == Blong_lower_mask(m_indx)
                  IN  IF um.panic \/ lm.panic
                      THEN Panics(Long(lp.inner, l.len))
                      ELSE LET upper == WordAnd(cur, um.v, INNER_SIZE)
                               lower == WordAnd(cur, lm.v, INNER_SIZE)
                               out   == Bit(cur, m_indx)
                               sum   == CheckedSum(lower + WordShr(upper, 1)
                                                   + WordShl(lp.bot, INNER_SIZE - 1, INNER_SIZE),
                                                   INNER_SIZE)
                           IN  IF sum.panic
                               THEN Panics(Long(lp.inner, l.len))
                               ELSE Out(Long(WithWord(lp.inner, t_index, sum.v), l.len - 1),
                                        RetBool(out = 1))

Blong_clear(l) == Out(Long(<<>>, 0), RetUnit)

Blong_get(l, index) ==
    IF index < l.len
    THEN LET t_index == index \div INNER_SIZE
             m_index == index % INNER_SIZE
         IN  IF t_index >= Len(l.inner)
             THEN RetPanic
             ELSE RetSome(Bit(Word(l.inner, t_index), m_index) = 1)
    ELSE RetNone

\* Index<usize> for Blong: if index > self.len { panic!(..) }, then
\* (self.inner[t_index] >> m_index) & 1
Blong_index(l, index) ==
    IF index > l.len
    THEN RetPanic
    ELSE LET t_index == index \div INNER_SIZE
             m_index == index % INNER_SIZE
         IN  IF t_index >= Len(l.inner)
             THEN RetPanic
             ELSE RetBool(Bit(Word(l.inner, t_index), m_index) = 1)

Blong_set(l, index, flag) ==
    IF index < l.len
    THEN LET t_index == index \div INNER_SIZE
             m_index == index % INNER_SIZE
         IN  IF t_index >= Len(l.inner)
             THEN Panics(l)
             ELSE LET um == Blong_uper_mask(m_index + 1)
                      lm == Blong_lower_mask(m_index)
                  IN  IF um.panic \/ lm.panic
                      THEN Panics(l)
                      ELSE LET upper == WordAnd(Word(l.inner, t_index), um.v, INNER_SIZE)
                               lower == WordAnd(Word(l.inner, t_index), lm.v, INNER_SIZE)
                               sum   == CheckedSum(upper
                                                   + WordShl(FromBool(flag), m_index, INNER_SIZE)
                                                   + lower, INNER_SIZE)
                           IN  IF sum.panic
                               THEN Panics(l)
                               ELSE Out(Long(WithWord(l.inner, t_index, sum.v), l.len), RetUnit)
    ELSE Panics(l)

Blong_initialize(inner, len) ==
    Blong_set_len(Long(inner, Len(inner) * INNER_SIZE), len)

\* the words of a, each combined with the word of b at the same place, over the
\* first n words
AndWords(a, b, n) == [i \in 1..n |-> WordAnd(a[i], b[i], INNER_SIZE)]
OrWords(a, b, n)  == [i \in 1..n |-> WordOr(a[i], b[i], INNER_SIZE)]

Blong_bitand_assign(l, rhs) ==
    LET n == Min(Len(l.inner), Len(rhs.inner))
    IN  Out(Long(AndWords(l.inner, rhs.inner, n)
                 \o Zeros(Len(l.inner) - n)
                 \o Zeros(Len(rhs.inner) - n),
                 Max(l.len, rhs.len)), RetUnit)

Blong_bitor_assign(l, rhs) ==
    LET n == Min(Len(l.inner), Len(rhs.inner))
    IN  Out(Long(OrWords(l.inner, rhs.inner, n)
                 \o SubSeq(l.inner, n + 1, Len(l.inner))
                 \o SubSeq(rhs.inner, n + 1, Len(rhs.inner)),
                 Max(l.len, rhs.len)), RetUnit)

\* the overlapping words are combined with bitand_assign, and every extra word
\* of rhs is pushed as rhs.inner()[1]
Blong_bitxor_assign(l, rhs) ==
    LET n      == Min(Len(l.inner), Len(rhs.inner))
        anded  == AndWords(l.inner, rhs.inner, n) \o SubSeq(l.inner, n + 1, Len(l.inner))
        extra  == Len(rhs.inner) - n
    IN  IF extra > 0 /\ Len(rhs.inner) < 2
        THEN Panics(Long(anded, l.len))
        ELSE Out(Long(anded \o [i \in 1..extra |-> Word(rhs.inner, 1)],
                      Max(l.len, rhs.len)), RetUnit)

Blong_not(l) ==
    LET len     == Len(l.inner)
        negated == [i \in 1..len |-> WordNot(l.inner[i], INNER_SIZE)]
    IN  \* len - 1 underflows on an empty Vec: a panic, or a wrapped index out of bounds
        IF len = 0
        THEN Panics(l)
        ELSE LET lm == Blong_lower_mask(l.len % INNER_SIZE)
             IN  IF lm.panic THEN Panics(l)
                 ELSE Out(Long(WithWord(negated, len - 1,
                                        WordAnd(Word(negated, len - 1), lm.v, INNER_SIZE)),
                               l.len), RetUnit)

\* the for loop of sub_assign from word i on: it stops with a panic at the first
\* word that rhs does not have
RECURSIVE Blong_sub_loop(_, _, _)
Blong_sub_loop(l, rhs, i) ==
    IF i >= Len(l.inner)
    THEN Out(l, RetUnit)
    ELSE IF i >= Len(rhs.inner)
    THEN Panics(l)
    ELSE Blong_sub_loop(Long(WithWord(l.inner, i,
                                      WordAnd(Word(l.inner, i),
                                              WordNot(Word(rhs.inner, i), INNER_SIZE),
                                              INNER_SIZE)),
                             l.len), rhs, i + 1)

Blong_sub_assign(l, rhs) == Blong_sub_loop(l, rhs, 0)

\* From<Bsize> for Blong: the word of a Bsize is one word of Blong
Blong_from_Bsize(value) == Long(<<value.inner>>, value.len)

\* the while loop of From<B128> for Blong: each round pushes the low word of
\* val_inner, shifts val_inner down by a word and takes INNER_SIZE off rem_len.
\* With rem_len below INNER_SIZE the subtraction underflows: a panic, or a
\* rem_len wrapped to near usize::MAX and a loop that pushes words until the
\* allocation fails; either way the conversion does not return.
RECURSIVE Blong_from_loop(_, _, _)
Blong_from_loop(inner, val_inner, rem_len) ==
    IF rem_len > 0
    THEN LET pushed == Append(inner, val_inner % Pow2(INNER_SIZE))
         IN  IF rem_len < INNER_SIZE
             THEN [panic |-> TRUE, inner |-> pushed]
             ELSE Blong_from_loop(pushed, val_inner \div Pow2(INNER_SIZE), rem_len - INNER_SIZE)
    ELSE [panic |-> FALSE, inner |-> inner]

\* usize::try_from(val_inner).map_or_else(|_| { the loop }, |r| vec![r])
Blong_from_B128(value) ==
    IF value.inner < Pow2(INNER_SIZE)
    THEN Out(Long(<<value.inner>>, value.len), RetUnit)
    ELSE LET lp == Blong_from_loop(<<>>, value.inner, value.len)
         IN  IF lp.panic
             THEN Panics(value)
             ELSE Out(Long(lp.inner, value.len), RetUnit)

\* From<B32> and From<B64> for Blong are the same code over u32 and u64
Blong_from_B32(value) == Blong_from_B128(value)
Blong_from_B64(value) == Blong_from_B128(value)

-----------------------------------------------------------------------------
(* trait FlagLs: the required methods, dispatched on the implementing type *)

FlagLs_MAX_LENGTH(l) == IF l.kind = "long" THEN Blong_MAX_LENGTH ELSE MAX_LENGTH

default(l) == IF l.kind = "long" THEN Blong_new ELSE Fixed_default

len(l) == l.len

set_len(l, new_len) ==
    IF l.kind = "long" THEN Blong_set_len(l, new_len) ELSE Fixed_set_len(l, new_len)

insert(l, index, flag) ==
    IF l.kind = "long" THEN Blong_insert(l, index, flag) ELSE Fixed_insert(l, index, flag)

remove(l, index) ==
    IF l.kind = "long" THEN Blong_remove(l, index) ELSE Fixed_remove(l, index)

clear(l) == IF l.kind = "long" THEN Blong_clear(l) ELSE Fixed_clear(l)

get(l, index) == IF l.kind = "long" THEN Blong_get(l, index) ELSE Fixed_get(l, index)

set(l, index, flag) ==
    IF l.kind = "long" THEN Blong_set(l, index, flag) ELSE Fixed_set(l, index, flag)

(* trait FlagLs: the provided methods *)

try_insert(l, index, flag) ==
    IF index > len(l)
    THEN Out(l, RetIndexOutOfBounds(index, len(l)))
    ELSE IF len(l) >= FlagLs_MAX_LENGTH(l)
    THEN Out(l, RetMaximumLengthExceeded(FlagLs_MAX_LENGTH(l), len(l) + 1))
    ELSE LET o == insert(l, index, flag)
         IN  IF o.ret = RetPanic THEN o ELSE Out(o.ls, RetOk)

try_remove(l, index) ==
    IF index < len(l)
    THEN LET o == remove(l, index)
         IN  IF o.ret = RetPanic THEN o ELSE Out(o.ls, RetSome(o.ret.b))
    ELSE Out(l, RetNone)

truncate(l, n) ==
    IF n < len(l) THEN set_len(l, n) ELSE Out(l, RetUnit)

\* push that puts the flag in front of the list
push_AtFront(l, flag) == insert(l, 0, flag)

push(l, flag) == insert(l, len(l), flag)

try_push(l, flag) ==
    IF len(l) >= FlagLs_MAX_LENGTH(l)
    THEN Out(l, RetMaximumLengthExceeded(FlagLs_MAX_LENGTH(l), len(l) + 1))
    ELSE LET o == push(l, flag)
         IN  IF o.ret = RetPanic THEN o ELSE Out(o.ls, RetOk)

pop(l) ==
    IF len(l) > 0
    THEN LET o == remove(l, len(l) - 1)
         IN  IF o.ret = RetPanic THEN o ELSE Out(o.ls, RetSome(o.ret.b))
    ELSE Out(l, RetNone)

try_set(l, index, flag) ==
    LET g == get(l, index)
    IN  IF g = RetPanic THEN Panics(l)
        ELSE IF g = RetNone THEN Out(l, RetNone)
        ELSE LET o == set(l, index, flag)
             IN  IF o.ret = RetPanic THEN o ELSE Out(o.ls, g)

is_empty(l) == len(l) = 0

(* trait FlagLs: the constructors; l says which implementor is built *)

\* for item in v { out.try_push(item)?; } from the i-th item on
RECURSIVE try_from_iter_loop(_, _, _)
try_from_iter_loop(out, v, i) ==
    IF i > Len(v)
    THEN Out(out, RetOk)
    ELSE LET o == try_push(out, v[i])
         IN  IF o.ret = RetOk THEN try_from_iter_loop(o.ls, v, i + 1) ELSE o

try_from_iter(l, v) == try_from_iter_loop(default(l), v, 1)

\* try_from_iter(v).expect(..)
from_iter(l, v) ==
    LET o == try_from_iter(l, v)
    IN  IF o.ret = RetOk THEN o ELSE Panics(o.ls)

\* for item in v { out.push(item); } from the i-th item on
RECURSIVE push_loop(_, _, _)
push_loop(out, v, i) ==
    IF i > Len(v)
    THEN Out(out, RetOk)
    ELSE LET o == push(out, v[i])
         IN  IF o.ret = RetPanic THEN o ELSE push_loop(o.ls, v, i + 1)

from_vec(l, v) ==
    IF Len(v) > FlagLs_MAX_LENGTH(l)
    THEN Panics(default(l))
    ELSE push_loop(default(l), v, 1)

all_true(l, n)  == push_loop(default(l), [i \in 1..n |-> TRUE], 1)
\* all_false that pushes the flag all_true pushes
all_false_PushesTrue(l, n) == all_true(l, n)

all_false(l, n) == push_loop(default(l), [i \in 1..n |-> FALSE], 1)

-----------------------------------------------------------------------------
(* flag_iter::Iter { inner: &T, front, back } over the list l *)

Iter(front, back) == [active |-> TRUE, front |-> front, back |-> back]

Iter_new(l) == Iter(0, len(l))

\* the iterator next leaves and what it returns
Iter_next(l, it) ==
    IF it.front >= it.back
    THEN [iter |-> it, ret |-> RetNone]
    ELSE [iter |-> Iter(it.front + 1, it.back), ret |-> get(l, it.front)]

Iter_size_hint(it) == it.back - it.front

Iter_next_back(l, it) ==
    IF it.front >= it.back
    THEN [iter |-> it, ret |-> RetNone]
    ELSE [iter |-> Iter(it.front, it.back - 1), ret |-> get(l, it.back - 1)]

\* the flags a for loop over the iterator sees: next until it returns None
\* (a panic inside next ends the loop with what was seen before it)
RECURSIVE Iter_collect(_, _)
Iter_collect(l, it) ==
    LET o == Iter_next(l, it)
    IN  IF o.ret.tag = "Some"
        THEN <<o.ret.b>> \o Iter_collect(l, o.iter)
        ELSE <<>>

\* next panicked somewhere on the way through the list
RECURSIVE Iter_panics(_, _)
Iter_panics(l, it) ==
    LET o == Iter_next(l, it)
    IN  IF o.ret = RetPanic THEN TRUE
        ELSE IF o.ret = RetNone THEN FALSE
        ELSE Iter_panics(l, o.iter)

-----------------------------------------------------------------------------
(* Conversions between the lists.  A conversion is modelled at the scale of its
   source: a fixed-width source is a list over a word of MAX_LENGTH bits, a
   narrower destination has NarrowBits and a wider one WideBits; next to a
   Blong, whose words stand for usize, Bsize and B64 have INNER_SIZE bits (a
   64-bit target) and B32 has HalfWordBits. *)

NarrowBits   == MAX_LENGTH \div 2
WideBits     == 2 * MAX_LENGTH
HalfWordBits == INNER_SIZE \div 2

\* Ok(Self { inner, len }), and Err(String)
RetList(inner, n) == Ret("List", FALSE, inner, n)
RetErrString        == Ret("ErrString", FALSE, 0, 0)

\* if len > MAX_LENGTH { Err(MaximumLengthExceeded) }
\* else { Ok(Self { inner: value.as_inner().try_into().expect(..), len }) }
\* into a word of mx bits
IntoWord(value, mx) ==
    IF value.len > mx
    THEN RetMaximumLengthExceeded(mx, value.len)
    ELSE IF value.inner >= Pow2(mx)
    THEN RetPanic
    ELSE RetList(value.inner, value.len)

B32_try_from_B64(value)    == IntoWord(value, NarrowBits)
B32_try_from_B128(value)   == IntoWord(value, NarrowBits)
B32_try_from_Bsize(value)  == IntoWord(value, NarrowBits)
Bsize_try_from_B128(value) == IntoWord(value, NarrowBits)

\* 1.checked_shl(usize::BITS * i).unwrap_or(0) on a word of mx bits
ShlOrZero(i, mx) == IF INNER_SIZE * i >= mx THEN 0 ELSE Pow2(INNER_SIZE * i)

\* for (i, item) in v_inner.iter().enumerate() { inner += try_from(*item).expect(..) * (..) }
\* from the word i on, into a word of mx bits
RECURSIVE FromWords(_, _, _, _)
FromWords(v_inner, i, inner, mx) ==
    IF i >= Len(v_inner)
    THEN Val(inner)
    ELSE IF Word(v_inner, i) >= Pow2(mx)
    THEN NoVal
    ELSE LET term == CheckedSum(Word(v_inner, i) * ShlOrZero(i, mx), mx)
             sum  == CheckedSum(inner + term.v, mx)
         IN  IF term.panic \/ sum.panic
             THEN NoVal
             ELSE FromWords(v_inner, i + 1, sum.v, mx)

B32_try_from_Blong(value) ==
    IF value.len > HalfWordBits
    THEN RetMaximumLengthExceeded(HalfWordBits, value.len)
    ELSE LET inner == FromWords(value.inner, 0, 0, HalfWordBits)
         IN  IF inner.panic THEN RetPanic ELSE RetList(inner.v, value.len)

\* Ok(Self { inner: *value.as_inner().first().unwrap_or(&0), len })
Bsize_try_from_Blong(value) ==
    IF value.len > INNER_SIZE
    THEN RetMaximumLengthExceeded(INNER_SIZE, value.len)
    ELSE RetList(IF Len(value.inner) = 0 THEN 0 ELSE Word(value.inner, 0), value.len)

\* if len < Self::MAX_LENGTH { Err(format!(..)) } else { Ok(.. try_into().unwrap() ..) }
B64_try_from_B128(value) ==
    IF value.len < NarrowBits
    THEN RetErrString
    ELSE IF value.inner >= Pow2(NarrowBits)
    THEN RetPanic
    ELSE RetList(value.inner, value.len)

B64_try_from_Blong(value) ==
    IF value.len < INNER_SIZE
    THEN RetErrString
    ELSE LET inner == FromWords(value.inner, 0, 0, INNER_SIZE)
         IN  IF inner.panic THEN RetPanic ELSE RetList(inner.v, value.len)

\* Self { inner: value.as_inner().into(), len }: every word fits the wider one
B64_from_B32(value)  == RetList(value.inner, value.len)
B128_from_B32(value) == RetList(value.inner, value.len)
\* usize into u64: try_into().unwrap() cannot fail
B64_from_Bsize(value) == RetList(value.inner, value.len)

B128_try_from_B64(value)  == IntoWord(value, WideBits)
Bsize_try_from_B32(value) == IntoWord(value, WideBits)

-----------------------------------------------------------------------------
(* The program: one list, and the operations a caller applies to it *)

\* a panic ends the program
Panicked == last.ret = RetPanic

\* the lists a sequence of pushes builds (from_iter): every content of every length
FixedLists(w) == UNION {{Fixed(i, n) : i \in 0..(Pow2(n) - 1)} : n \in 0..w}

\* the words of the list of length n whose flags are the bits of i
RECURSIVE Chunks(_, _)
Chunks(i, n) ==
    IF n <= 0 THEN <<>>
    ELSE <<i % Pow2(INNER_SIZE)>> \o Chunks(i \div Pow2(INNER_SIZE), n - INNER_SIZE)

\* the long lists with every content of every length up to n, on exactly the
\* words their length needs
LongLists(n) == UNION {{Long(Chunks(i, k), k) : i \in 0..(Pow2(k) - 1)} : k \in 0..n}

\* raw words for initialize
Words == 0..(Pow2(INNER_SIZE) - 1)
WordSeqs(n) == UNION {[1..k -> Words] : k \in 0..n}

\* the right-hand sides of the binary operators
Operands == IF ls.kind = "long" THEN LongLists(MaxLongLen) ELSE FixedLists(MAX_LENGTH)

\* the model keeps a Blong within MaxLongLen flags and MaxWords words
Bounded(l) == l.kind = "long" => (l.len <= MaxLongLen /\ Len(l.inner) <= MaxWords)

\* indices: every valid one and the first invalid ones
Indices == 0..(len(ls) + 1)
Lengths == IF ls.kind = "long" THEN 0..MaxLongLen ELSE 0..(MAX_LENGTH + 1)

\* a call on the list, given the operand s; while an iterator borrows the list
\* nothing else can use it
DoWith(op, index, flag, o, s) ==
    /\ ~Panicked
    /\ ~iter.active
    /\ Bounded(o.ls)
    /\ ls' = o.ls
    /\ last' = IF recording
               THEN [op |-> op, index |-> index, flag |-> flag, pre |-> ls, ret |-> o.ret]
               ELSE [op |-> op, index |-> 0, flag |-> FALSE, pre |-> default(ls), ret |-> o.ret]
    /\ src' = IF recording THEN s ELSE <<>>
    /\ UNCHANGED <<overflow_checks, recording, iter, seen>>

\* a call that takes no list or sequence
Do(op, index, flag, o) == DoWith(op, index, flag, o, <<>>)

\* a binary operator with right-hand side rhs
Do2(op, rhs, o) == DoWith(op, 0, FALSE, o, rhs)

\* an operation that builds a new list and assigns it: a panic leaves the old one
Assigned(o) == IF o.ret = RetPanic THEN Panics(ls) ELSE o

Insert    == \E index \in Indices, flag \in BOOLEAN :
                 Do("insert", index, flag, insert(ls, index, flag))
Remove    == \E index \in Indices :
                 Do("remove", index, FALSE, remove(ls, index))
Set       == \E index \in Indices, flag \in BOOLEAN :
                 Do("set", index, flag, set(ls, index, flag))
SetLen    == \E new_len \in Lengths :
                 Do("set_len", new_len, FALSE, set_len(ls, new_len))
Clear     == Do("clear", 0, FALSE, clear(ls))
Push      == \E flag \in BOOLEAN :
                 Do("push", len(ls), flag, push(ls, flag))
Pop       == Do("pop", 0, FALSE, pop(ls))
Truncate  == \E n \in Lengths :
                 Do("truncate", n, FALSE, truncate(ls, n))
TryInsert == \E index \in Indices, flag \in BOOLEAN :
                 Do("try_insert", index, flag, try_insert(ls, index, flag))
TryPush   == \E flag \in BOOLEAN :
                 Do("try_push", len(ls), flag, try_push(ls, flag))
TryRemove == \E index \in Indices :
                 Do("try_remove", index, FALSE, try_remove(ls, index))
TrySet    == \E index \in Indices, flag \in BOOLEAN :
                 Do("try_set", index, flag, try_set(ls, index, flag))

(* fixed-width lists only *)
FixedInitialize ==
    \E inner \in 0..(Pow2(MAX_LENGTH) - 1), n \in 0..(MAX_LENGTH + 1) :
        DoWith("initialize", n, FALSE, Assigned(Fixed_initialize(inner, n)), inner)
FixedBitAnd == \E rhs \in Operands : Do2("bitand", rhs, Fixed_bitand(ls, rhs))
FixedBitOr  == \E rhs \in Operands : Do2("bitor", rhs, Fixed_bitor(ls, rhs))
FixedBitXor == \E rhs \in Operands : Do2("bitxor", rhs, Fixed_bitxor(ls, rhs))
FixedShl    == \E rhs \in 0..(MAX_LENGTH + 1) :
                   Do("shl", rhs, FALSE, Assigned(Fixed_shl(ls, rhs)))
FixedShr    == \E rhs \in 0..(MAX_LENGTH + 1) :
                   Do("shr", rhs, FALSE, Assigned(Fixed_shr(ls, rhs)))
FixedNot    == Do("not", 0, FALSE, Assigned(Fixed_not(ls)))
FixedSub    == \E rhs \in Operands : Do2("sub", rhs, Fixed_sub(ls, rhs))

(* Blong only *)
BlongInitialize ==
    \E inner \in WordSeqs(MaxWords - 1), n \in 0..MaxLongLen :
        DoWith("initialize", n, FALSE, Assigned(Blong_initialize(inner, n)), inner)
\* Self::initialize(x.as_inner(), x.len()) of the list x at hand
Reinitialize ==
    Do("reinitialize", 0, FALSE,
       Assigned(IF ls.kind = "long"
                THEN Blong_initialize(ls.inner, ls.len)
                ELSE Fixed_initialize(ls.inner, ls.len)))
BlongBitAndAssign == \E rhs \in Operands : Do2("bitand_assign", rhs, Blong_bitand_assign(ls, rhs))
BlongBitOrAssign  == \E rhs \in Operands : Do2("bitor_assign", rhs, Blong_bitor_assign(ls, rhs))
BlongBitXorAssign == \E rhs \in Operands : Do2("bitxor_assign", rhs, Blong_bitxor_assign(ls, rhs))
BlongNot          == Do("not", 0, FALSE, Assigned(Blong_not(ls)))
BlongSubAssign    == \E rhs \in Operands : Do2("sub_assign", rhs, Blong_sub_assign(ls, rhs))
BlongFromBsize    ==
    \E value \in FixedLists(INNER_SIZE) :
        DoWith("from_bsize", 0, FALSE, Out(Blong_from_Bsize(value), RetUnit), value)

\* let ls = Blong::from(value): of the fixed-width list at hand (a B128, twice
\* the word on a 64-bit target), of a B64 (one word) and of a B32 (half a word)
BlongFroms ==
    \/ (ls.kind = "fixed" /\ DoWith("from_b128", 0, FALSE, Assigned(Blong_from_B128(ls)), ls))
    \/ \E value \in FixedLists(INNER_SIZE) :
           DoWith("from_b64", 0, FALSE, Assigned(Blong_from_B64(value)), value)
    \/ \E value \in FixedLists(HalfWordBits) :
           DoWith("from_b32", 0, FALSE, Assigned(Blong_from_B32(value)), value)

\* no iterator has been made
NoIter == [active |-> FALSE, front |-> 0, back |-> 0]
\* nexts, backs: the calls of next / next_back that returned a flag; ended: a call
\* has returned None; late: a call returned a flag after one had returned None
NothingSeen == [nexts |-> 0, backs |-> 0, ended |-> FALSE, late |-> FALSE]

(* the constructors of the trait, given the flags in src *)

\* every sequence of at most n flags
BoolSeqs(n) == UNION {[1..k -> BOOLEAN] : k \in 0..n}

\* let ls = <constructor>: the constructors take no list; one that panics or
\* fails builds none, and ls is the empty list
Construct(op, n, o) ==
    /\ ~Panicked
    /\ ~iter.active
    /\ Bounded(o.ls)
    /\ ls' = IF o.ret = RetOk THEN o.ls ELSE default(ls)
    /\ last' = [op |-> op, index |-> n, flag |-> FALSE, pre |-> default(ls), ret |-> o.ret]
    /\ UNCHANGED <<overflow_checks, recording, src, iter, seen>>

FromIter    == Construct("from_iter", Len(src), from_iter(ls, src))
TryFromIter == Construct("try_from_iter", Len(src), try_from_iter(ls, src))
FromVec     == Construct("from_vec", Len(src), from_vec(ls, src))
AllTrue     == \E n \in Lengths : Construct("all_true", n, all_true(ls, n))
AllFalse    == \E n \in Lengths : Construct("all_false", n, all_false(ls, n))

\* ls[index]
IndexAt ==
    \E index \in Indices :
        Do("index", index, FALSE,
           Out(ls, IF ls.kind = "long" THEN Blong_index(ls, index) ELSE Fixed_index(ls, index)))

(* the conversions of ls into another list; ls stays as it is *)

FromFixed(op, ret) == ls.kind = "fixed" /\ Do(op, 0, FALSE, Out(ls, ret))
FromLong(op, ret)  == ls.kind = "long" /\ Do(op, 0, FALSE, Out(ls, ret))

\* B32::try_from, Bsize::try_from and B64::try_from of a wider list or a Blong
Narrowings ==
    \/ FromFixed("B32_try_from_B64", B32_try_from_B64(ls))
    \/ FromFixed("B32_try_from_B128", B32_try_from_B128(ls))
    \/ FromFixed("B32_try_from_Bsize", B32_try_from_Bsize(ls))
    \/ FromFixed("Bsize_try_from_B128", Bsize_try_from_B128(ls))
    \/ FromLong("B32_try_from_Blong", B32_try_from_Blong(ls))
    \/ FromLong("Bsize_try_from_Blong", Bsize_try_from_Blong(ls))
    \/ FromFixed("B64_try_from_B128", B64_try_from_B128(ls))
    \/ FromLong("B64_try_from_Blong", B64_try_from_Blong(ls))

\* B64::from, B128::from, B128::try_from and Bsize::try_from of a narrower list
Widenings ==
    \/ FromFixed("B64_from_B32", B64_from_B32(ls))
    \/ FromFixed("B128_from_B32", B128_from_B32(ls))
    \/ FromFixed("B128_try_from_B64", B128_try_from_B64(ls))
    \/ FromFixed("Bsize_try_from_B32", Bsize_try_from_B32(ls))
    \/ FromFixed("B64_from_Bsize", B64_from_Bsize(ls))

(* the iterator *)

Called(op, ret) == [op |-> op, index |-> 0, flag |-> FALSE, pre |-> default(ls), ret |-> ret]

Saw(o, isNext) ==
    [nexts |-> seen.nexts + (IF isNext /\ o.ret.tag = "Some" THEN 1 ELSE 0),
     backs |-> seen.backs + (IF ~isNext /\ o.ret.tag = "Some" THEN 1 ELSE 0),
     ended |-> seen.ended \/ o.ret = RetNone,
     late  |-> seen.late \/ (seen.ended /\ o.ret # RetNone)]

IterNew ==
    /\ ~Panicked
    /\ ~iter.active
    /\ iter' = Iter_new(ls)
    /\ seen' = NothingSeen
    /\ last' = Called("iter", RetUnit)
    /\ UNCHANGED <<ls, overflow_checks, recording, src>>

IterNext ==
    /\ ~Panicked
    /\ iter.active
    /\ LET o == Iter_next(ls, iter)
       IN  /\ iter' = o.iter
           /\ seen' = Saw(o, TRUE)
           /\ last' = Called("next", o.ret)
    /\ UNCHANGED <<ls, overflow_checks, recording, src>>

IterNextBack ==
    /\ ~Panicked
    /\ iter.active
    /\ LET o == Iter_next_back(ls, iter)
       IN  /\ iter' = o.iter
           /\ seen' = Saw(o, FALSE)
           /\ last' = Called("next_back", o.ret)
    /\ UNCHANGED <<ls, overflow_checks, recording, src>>

IterSizeHint ==
    /\ ~Panicked
    /\ iter.active
    /\ last' = Called("size_hint", Ret("Size", FALSE, Iter_size_hint(iter), Iter_size_hint(iter)))
    /\ UNCHANGED <<ls, overflow_checks, recording, src, iter, seen>>

StartWith(l, rec, s) ==
    /\ ls = l
    /\ last = [op |-> "new", index |-> 0, flag |-> FALSE, pre |-> l, ret |-> RetUnit]
    /\ overflow_checks \in BOOLEAN
    /\ recording = rec
    /\ src = s
    /\ iter = NoIter
    /\ seen = NothingSeen

Start(l, rec) == StartWith(l, rec, <<>>)

TraitOps ==
    \/ Insert \/ Remove \/ Set \/ SetLen \/ Clear \/ Push \/ Pop \/ Truncate
    \/ TryInsert \/ TryPush \/ TryRemove \/ TrySet

FixedOps ==
    \/ FixedInitialize \/ FixedBitAnd \/ FixedBitOr \/ FixedBitXor
    \/ FixedShl \/ FixedShr \/ FixedNot \/ FixedSub

BlongOps ==
    \/ BlongInitialize \/ BlongBitAndAssign \/ BlongBitOrAssign \/ BlongBitXorAssign
    \/ BlongNot \/ BlongSubAssign \/ BlongFromBsize

(* a fixed-width list under the methods of the trait *)
InitFixed == Start(Fixed_default, TRUE)
NextFixed == TraitOps
SpecFixed == InitFixed /\ [][NextFixed]_vars

(* a fixed-width list under every mutation *)
InitFixedOps == Start(Fixed_default, FALSE)
NextFixedOps == TraitOps \/ FixedOps
SpecFixedOps == InitFixedOps /\ [][NextFixedOps]_vars

(* a Blong under the methods of the trait *)
InitLong == Start(Blong_new, TRUE)
NextLong == TraitOps
SpecLong == InitLong /\ [][NextLong]_vars

(* a list of either kind under the methods of the trait *)
InitTrait == Start(Fixed_default, TRUE) \/ Start(Blong_new, TRUE)
NextTrait == TraitOps
SpecTrait == InitTrait /\ [][NextTrait]_vars

(* a fixed-width list under its operators, on lists built by push and remove *)
InitFixedAlg == Start(Fixed_default, TRUE)
NextFixedAlg ==
    \/ Push \/ Remove
    \/ FixedBitAnd \/ FixedBitOr \/ FixedBitXor \/ FixedShl \/ FixedShr \/ FixedNot \/ FixedSub
SpecFixedAlg == InitFixedAlg /\ [][NextFixedAlg]_vars

(* a Blong under set difference, on lists built by push and remove *)
InitLongSub == Start(Blong_new, TRUE)
NextLongSub == Push \/ Remove \/ BlongSubAssign
SpecLongSub == InitLongSub /\ [][NextLongSub]_vars

(* a list of either kind, built by push and remove (and NOT, on a Blong), converted *)
InitConv == Start(Fixed_default, FALSE) \/ Start(Blong_new, FALSE)
NextConv ==
    \/ Push \/ Remove
    \/ (ls.kind = "long" /\ BlongNot)
    \/ Narrowings \/ Widenings
SpecConv == InitConv /\ [][NextConv]_vars

(* a fixed-width list built by push and remove, made into a Blong *)
InitInto == Start(Fixed_default, TRUE)
NextInto == Push \/ Remove \/ BlongFroms \/ BlongFromBsize
SpecInto == InitInto /\ [][NextInto]_vars

(* a list of either kind built by push, remove and initialize *)
InitInit == Start(Fixed_default, TRUE) \/ Start(Blong_new, TRUE)
NextInit ==
    \/ Push \/ Remove
    \/ (ls.kind = "fixed" /\ FixedInitialize)
    \/ (ls.kind = "long" /\ BlongInitialize)
    \/ Reinitialize
SpecInit == InitInit /\ [][NextInit]_vars

(* a Blong next to a plain sequence of flags, Vec<bool>, kept in src, that
   receives the same calls: Vec::push, pop, insert, remove, v[index] = flag, clear *)
VecInsert(v, index, flag) == SubSeq(v, 1, index) \o <<flag>> \o SubSeq(v, index + 1, Len(v))
VecRemove(v, index)       == SubSeq(v, 1, index) \o SubSeq(v, index + 2, Len(v))
VecSet(v, index, flag)    == [v EXCEPT ![index + 1] = flag]
VecPop(v)                 == SubSeq(v, 1, Len(v) - 1)

InitMirror == Start(Blong_new, TRUE)
NextMirror ==
    \/ \E flag \in BOOLEAN :
           DoWith("push", len(ls), flag, push(ls, flag), Append(src, flag))
    \/ DoWith("pop", 0, FALSE, pop(ls), VecPop(src))
    \/ \E index \in 0..Len(src), flag \in BOOLEAN :
           DoWith("insert", index, flag, insert(ls, index, flag), VecInsert(src, index, flag))
    \/ \E index \in 0..(Len(src) - 1) :
           DoWith("remove", index, FALSE, remove(ls, index), VecRemove(src, index))
    \/ \E index \in 0..(Len(src) - 1), flag \in BOOLEAN :
           DoWith("set", index, flag, set(ls, index, flag), VecSet(src, index, flag))
    \/ DoWith("clear", 0, FALSE, clear(ls), <<>>)
SpecMirror == InitMirror /\ [][NextMirror]_vars

(* a Blong under its methods and operators *)
InitLongAlg == Start(Blong_new, FALSE)
NextLongAlg ==
    \/ Insert \/ Remove \/ Set \/ SetLen \/ Clear \/ Push \/ Pop
    \/ BlongBitAndAssign \/ BlongBitOrAssign \/ BlongBitXorAssign
    \/ BlongNot \/ BlongSubAssign
SpecLongAlg == InitLongAlg /\ [][NextLongAlg]_vars

(* a Blong under ^=, under &= and |=, and under NOT, on lists built by push and remove *)
InitLongXor == Start(Blong_new, TRUE)
NextLongXor == Push \/ Remove \/ BlongBitXorAssign
SpecLongXor == InitLongXor /\ [][NextLongXor]_vars

InitLongAndOr == Start(Blong_new, TRUE)
NextLongAndOr == Push \/ Remove \/ BlongBitAndAssign \/ BlongBitOrAssign
SpecLongAndOr == InitLongAndOr /\ [][NextLongAndOr]_vars

InitLongNot == Start(Blong_new, TRUE)
NextLongNot == Push \/ Remove \/ BlongNot
SpecLongNot == InitLongNot /\ [][NextLongNot]_vars

(* a list of either kind built by push and remove, and indexed *)
InitIndex == Start(Fixed_default, TRUE) \/ Start(Blong_new, TRUE)
NextIndex == Push \/ Remove \/ IndexAt
SpecIndex == InitIndex /\ [][NextIndex]_vars

(* a list of either kind built by the constructors of the trait *)
InitBuild ==
    \/ \E s \in BoolSeqs(MAX_LENGTH + 1) : StartWith(Fixed_default, TRUE, s)
    \/ \E s \in BoolSeqs(MaxLongLen) : StartWith(Blong_new, TRUE, s)
NextBuild == FromIter \/ TryFromIter \/ FromVec \/ AllTrue \/ AllFalse
SpecBuild == InitBuild /\ [][NextBuild]_vars

(* a list of either kind under the methods of the trait, then iterated *)
InitIter == Start(Fixed_default, FALSE) \/ Start(Blong_new, FALSE)
NextIter == TraitOps \/ IterNew \/ IterNext \/ IterNextBack \/ IterSizeHint
SpecIter == InitIter /\ [][NextIter]_vars

(* a Blong under every mutation *)
InitLongOps == Start(Blong_new, FALSE)
NextLongOps == TraitOps \/ BlongOps
SpecLongOps == InitLongOps /\ [][NextLongOps]_vars

-----------------------------------------------------------------------------
(* Properties *)

\* the flags of a and b agree at every position in lo..hi-1, b read shift places up
SameFlags(a, b, lo, hi, shift) ==
    \A i \in lo..(hi - 1) : get(b, i + shift) = get(a, i)

\* the list has a true flag at or above index
TrueAtOrAbove(l, index) == \E i \in index..(l.len - 1) : get(l, i) = RetSome(TRUE)

\* C1: in a fixed-width list that has come through any sequence of mutations,
\* 0 <= length <= W and every storage bit at a position >= length is zero.
C1_AboveLengthBitsClear ==
    (ls.kind = "fixed" /\ ~Panicked) =>
        /\ 0 <= ls.len /\ ls.len <= MAX_LENGTH
        /\ ls.inner < Pow2(ls.len)

\* C2: insert(index, flag) on a fixed-width list of length L: when index > L or
\* L = W it panics and leaves the list as it was; otherwise the length is L+1,
\* the flag at index is flag, the flags below index are unchanged and every
\* flag that was at i >= index is at i+1.
C2_InsertShiftsUp ==
    (ls.kind = "fixed" /\ last.op = "insert") =>
        IF last.index > last.pre.len \/ last.pre.len = MAX_LENGTH
        THEN last.ret = RetPanic /\ ls = last.pre
        ELSE /\ last.ret = RetUnit
             /\ ls.len = last.pre.len + 1
             /\ get(ls, last.index) = RetSome(last.flag)
             /\ SameFlags(last.pre, ls, 0, last.index, 0)
             /\ SameFlags(last.pre, ls, last.index, last.pre.len, 1)

\* an insert below the end moved a true flag up
C2_Witness ==
    /\ ls.kind = "fixed" /\ last.op = "insert" /\ last.ret = RetUnit
    /\ last.index > 0 /\ last.index < last.pre.len
    /\ TrueAtOrAbove(last.pre, last.index)

\* C3: remove(index) on a fixed-width list of length L: when index >= L it
\* panics; otherwise (index = W-1 on a full list included) it returns the flag
\* that was at index, the length is L-1, the flags below index are unchanged and
\* every flag that was at i > index is at i-1.
C3_RemoveShiftsDown ==
    (ls.kind = "fixed" /\ last.op = "remove") =>
        IF last.index >= last.pre.len
        THEN last.ret = RetPanic
        ELSE /\ last.ret.tag = "Bool"
             /\ RetSome(last.ret.b) = get(last.pre, last.index)
             /\ ls.len = last.pre.len - 1
             /\ SameFlags(ls, last.pre, 0, last.index, 0)
             /\ SameFlags(ls, last.pre, last.index, ls.len, 1)

\* C4: insert(index, f) followed at once by remove(index) returns f and leaves
\* a list equal (same length, same storage) to the one before the insert.
C4_InsertRemoveRoundTrip ==
    [][(/\ last.op = "insert" /\ last.ret = RetUnit
        /\ last'.op = "remove" /\ last'.index = last.index)
       => (last'.ret = RetBool(last.flag) /\ ls' = last.pre)]_vars

\* C5: push(f) followed at once by pop() returns Some(f), and leaves the
\* length and the flags as they were before the push.
C5_PushPopRoundTrip ==
    [][(/\ last.op = "push" /\ last.ret = RetUnit
        /\ last'.op = "pop")
       => (/\ last'.ret = RetSome(last.flag)
           /\ ls'.len = last.pre.len
           /\ \A i \in 0..(last.pre.len - 1) : get(ls', i) = get(last.pre, i))]_vars

\* ceil(n / INNER_SIZE)
WordsFor(n) == (n + INNER_SIZE - 1) \div INNER_SIZE

\* C6: a Blong that has come through any sequence of mutations has exactly
\* ceil(length / INNER_SIZE) backing words.
C6_WordCount ==
    (ls.kind = "long" /\ ~Panicked) => Len(ls.inner) = WordsFor(ls.len)

\* C7: set_len(new_len) with new_len <= MAX_LENGTH completes with length new_len,
\* keeps the flags below min(old length, new_len) and makes the flags in
\* old length..new_len false; on a fixed-width list it panics when
\* new_len > MAX_LENGTH.
C7_SetLen ==
    last.op = "set_len" =>
        IF last.index > FlagLs_MAX_LENGTH(last.pre)
        THEN last.ret = RetPanic
        ELSE /\ last.ret = RetUnit
             /\ ls.len = last.index
             /\ SameFlags(last.pre, ls, 0, Min(last.pre.len, last.index), 0)
             /\ \A i \in last.pre.len..(last.index - 1) : get(ls, i) = RetSome(FALSE)

\* C8: set(index, flag) with index < length makes the flag at index flag and
\* leaves the length and every other flag as they were; with index >= length it
\* panics.
C8_Set ==
    last.op = "set" =>
        IF last.index >= last.pre.len
        THEN last.ret = RetPanic
        ELSE /\ last.ret = RetUnit
             /\ ls.len = last.pre.len
             /\ get(ls, last.index) = RetSome(last.flag)
             /\ \A i \in 0..(ls.len - 1) : i # last.index => get(ls, i) = get(last.pre, i)

\* C9: try_insert and try_push return IndexOutOfBounds when index > length and
\* MaximumLengthExceeded { MAX_LENGTH, length + 1 } when length >= MAX_LENGTH,
\* leaving the list as it was; in every other case they return Ok, without a
\* panic, and the list is as insert / push leaves it.
C9_TryInsertTryPush ==
    (last.op = "try_insert" \/ last.op = "try_push") =>
        IF last.index > last.pre.len
        THEN last.ret = RetIndexOutOfBounds(last.index, last.pre.len) /\ ls = last.pre
        ELSE IF last.pre.len >= FlagLs_MAX_LENGTH(last.pre)
        THEN /\ last.ret = RetMaximumLengthExceeded(FlagLs_MAX_LENGTH(last.pre), last.pre.len + 1)
             /\ ls = last.pre
        ELSE /\ last.ret = RetOk
             /\ ls.len = last.pre.len + 1
             /\ get(ls, last.index) = RetSome(last.flag)
             /\ SameFlags(last.pre, ls, 0, last.index, 0)
             /\ SameFlags(last.pre, ls, last.index, last.pre.len, 1)

\* C10: try_set and try_remove with index < length return Some(the flag that
\* was at index) and set / remove it; with index >= length they return None;
\* pop on an empty list returns None; None leaves the list as it was, and none
\* of the three panics.
C10_TrySetTryRemovePop ==
    /\ last.op = "try_set" =>
           IF last.index < last.pre.len
           THEN /\ last.ret = get(last.pre, last.index)
                /\ last.ret.tag = "Some"
                /\ ls.len = last.pre.len
                /\ get(ls, last.index) = RetSome(last.flag)
                /\ \A i \in 0..(ls.len - 1) : i # last.index => get(ls, i) = get(last.pre, i)
           ELSE last.ret = RetNone /\ ls = last.pre
    /\ last.op = "try_remove" =>
           IF last.index < last.pre.len
           THEN /\ last.ret = get(last.pre, last.index)
                /\ last.ret.tag = "Some"
                /\ ls.len = last.pre.len - 1
                /\ SameFlags(ls, last.pre, 0, last.index, 0)
                /\ SameFlags(ls, last.pre, last.index, ls.len, 1)
           ELSE last.ret = RetNone /\ ls = last.pre
    /\ (last.op = "pop" /\ last.pre.len = 0) => (last.ret = RetNone /\ ls = last.pre)

\* C11: a list built from a sequence s of at most MAX_LENGTH flags (from_iter,
\* try_from_iter, from_vec) has length |s| and iterating it forward yields s;
\* for a longer s try_from_iter returns an error and from_iter / from_vec panic.
C11_BuildThenIterate ==
    last.op \in {"from_iter", "try_from_iter", "from_vec"} =>
        IF Len(src) <= FlagLs_MAX_LENGTH(ls)
        THEN /\ last.ret = RetOk
             /\ len(ls) = Len(src)
             /\ ~Iter_panics(ls, Iter_new(ls))
             /\ Iter_collect(ls, Iter_new(ls)) = src
        ELSE IF last.op = "try_from_iter"
        THEN last.ret = RetMaximumLengthExceeded(FlagLs_MAX_LENGTH(ls), FlagLs_MAX_LENGTH(ls) + 1)
        ELSE last.ret = RetPanic

\* a full fixed-width list was built from a sequence holding both values
C11_Witness ==
    /\ ls.kind = "fixed" /\ last.op = "from_iter" /\ last.ret = RetOk
    /\ Len(src) = MAX_LENGTH /\ ls.len = MAX_LENGTH
    /\ src[1] /\ ~src[2]

\* C12: all_true(n) / all_false(n) with n <= MAX_LENGTH has length n and every
\* flag below n true / false.
C12_AllTrueAllFalse ==
    (last.op \in {"all_true", "all_false"} /\ last.index <= FlagLs_MAX_LENGTH(ls)) =>
        /\ last.ret = RetOk
        /\ len(ls) = last.index
        /\ \A i \in 0..(last.index - 1) : get(ls, i) = RetSome(last.op = "all_true")

\* all_true filled a fixed-width list to MAX_LENGTH
C12_Witness ==
    /\ ls.kind = "fixed" /\ last.op = "all_true" /\ last.ret = RetOk
    /\ last.index = MAX_LENGTH /\ ls.len = MAX_LENGTH

\* flag i of l, a flag the list does not have counting as false
FlagOrFalse(l, i) == get(l, i) = RetSome(TRUE)

\* the list has the flags f[0..n-1] and none of them is unreadable
HasFlags(l, n, f(_)) == len(l) = n /\ \A i \in 0..(n - 1) : get(l, i) = RetSome(f(i))

\* C13: a & b, a | b, a ^ b on fixed-width lists have length max(len a, len b)
\* and flag i = AND / OR / XOR of the flags i of a and b (a missing flag is
\* false); the operators are commutative; AND with all_false of equal length is
\* all_false and OR with all_true of equal length is all_true.
C13_AndOrXor ==
    (ls.kind = "fixed" /\ last.op \in {"bitand", "bitor", "bitxor"}) =>
        LET a == last.pre
            b == src
            both(i) == IF last.op = "bitand" THEN FlagOrFalse(a, i) /\ FlagOrFalse(b, i)
                       ELSE IF last.op = "bitor" THEN FlagOrFalse(a, i) \/ FlagOrFalse(b, i)
                       ELSE FlagOrFalse(a, i) # FlagOrFalse(b, i)
            swapped == IF last.op = "bitand" THEN Fixed_bitand(b, a)
                       ELSE IF last.op = "bitor" THEN Fixed_bitor(b, a)
                       ELSE Fixed_bitxor(b, a)
        IN  /\ last.ret = RetUnit
            /\ HasFlags(ls, Max(a.len, b.len), both)
            /\ swapped.ls = ls
            /\ (last.op = "bitand" /\ b = all_false(b, a.len).ls) => ls = b
            /\ (last.op = "bitor" /\ b = all_true(b, a.len).ls) => ls = b

\* C14: NOT of a fixed-width list of length L (L = W included) has length L,
\* the negated flags below L and no storage bit at or above L; NOT of the
\* result is the operand.
C14_Not ==
    (ls.kind = "fixed" /\ last.op = "not") =>
        LET negated(i) == ~FlagOrFalse(last.pre, i)
        IN  /\ last.ret = RetUnit
            /\ HasFlags(ls, last.pre.len, negated)
            /\ ls.inner < Pow2(ls.len)
            /\ Fixed_not(ls) = Out(last.pre, RetUnit)

\* C15: a fixed-width list of length L shifted by n (n >= W included): << gives
\* length min(L + n, W), false below n and the operand's flag i at i + n; >>
\* gives length max(L - n, 0) and the operand's flag i + n at i; neither panics.
C15_Shifts ==
    /\ (ls.kind = "fixed" /\ last.op = "shl") =>
           LET n == last.index
               shifted(i) == i >= n /\ FlagOrFalse(last.pre, i - n)
           IN  /\ last.ret = RetUnit
               /\ HasFlags(ls, Min(last.pre.len + n, MAX_LENGTH), shifted)
    /\ (ls.kind = "fixed" /\ last.op = "shr") =>
           LET n == last.index
               shifted(i) == FlagOrFalse(last.pre, i + n)
           IN  /\ last.ret = RetUnit
               /\ HasFlags(ls, Max(last.pre.len - n, 0), shifted)

\* C16: a - b keeps the length of a and has flag i = (flag i of a) and not
\* (flag i of b) below it, a flag b does not have counting as false; on Blong
\* also when b has fewer words than a, with no read out of bounds.
C16_SetDifference ==
    last.op \in {"sub", "sub_assign"} =>
        LET kept(i) == FlagOrFalse(last.pre, i) /\ ~FlagOrFalse(src, i)
        IN  /\ last.ret = RetUnit
            /\ HasFlags(ls, last.pre.len, kept)

\* what holds of an iterator over ls after each of its calls
IterInStep ==
    /\ last.op \in {"next", "next_back"} => last.ret # RetPanic
    /\ (last.op = "next" /\ last.ret.tag = "Some") => last.ret = get(ls, seen.nexts - 1)
    /\ (last.op = "next_back" /\ last.ret.tag = "Some") => last.ret = get(ls, len(ls) - seen.backs)
    /\ seen.nexts + seen.backs <= len(ls)
    /\ seen.ended => seen.nexts + seen.backs = len(ls)
    /\ ~seen.late
    /\ Iter_size_hint(iter) = len(ls) - seen.nexts - seen.backs
    /\ last.op = "size_hint" => last.ret.x = len(ls) - seen.nexts - seen.backs

\* C17: under any interleaving of next and next_back on an iterator over a list
\* of length L, the k-th next that returns a flag returns flag k-1 and the k-th
\* such next_back returns flag L-k; exactly L calls return a flag before the
\* first None and none does after it; size_hint is the number of flags not yet
\* returned; the list is not modified.
C17_Iterator ==
    [][iter'.active => (IterInStep' /\ (iter.active => ls' = ls))]_vars

\* the list a conversion returned
Converted == Fixed(last.ret.x, last.ret.y)

\* the conversion returned a list with the length of ls and its flags
SameList ==
    /\ last.ret.tag = "List"
    /\ len(Converted) = len(ls)
    /\ \A i \in 0..len(ls) : get(Converted, i) = get(ls, i)

\* MAX_LENGTH of the destination of the narrowing last called
NarrowedTo ==
    IF last.op = "B32_try_from_Blong" THEN HalfWordBits
    ELSE IF last.op \in {"Bsize_try_from_Blong", "B64_try_from_Blong"} THEN INNER_SIZE
    ELSE NarrowBits

\* C18: the narrowing conversions into B32 and Bsize return
\* MaximumLengthExceeded { destination MAX_LENGTH, source length } exactly when
\* the source is longer than the destination's MAX_LENGTH; otherwise they return,
\* without a panic, a list with the source's length and flags.
C18_Narrowing ==
    last.op \in {"B32_try_from_B64", "B32_try_from_B128", "B32_try_from_Bsize",
                 "B32_try_from_Blong", "Bsize_try_from_B128", "Bsize_try_from_Blong"} =>
        IF len(ls) > NarrowedTo
        THEN last.ret = RetMaximumLengthExceeded(NarrowedTo, len(ls))
        ELSE SameList

\* C19: the conversions from B128 and from Blong into B64 fail exactly when the
\* source is longer than 64; otherwise they return a B64 with the source's
\* length and flags.
C19_IntoB64 ==
    last.op \in {"B64_try_from_B128", "B64_try_from_Blong"} =>
        IF len(ls) > NarrowedTo
        THEN last.ret.tag \in {"ErrString", "MaximumLengthExceeded"}
        ELSE SameList

\* C20: the widening conversions never fail or panic; the list they return has
\* the source's length and flags and no storage bit at or above its length.
C20_Widening ==
    last.op \in {"B64_from_B32", "B128_from_B32", "B128_try_from_B64",
                 "Bsize_try_from_B32", "B64_from_Bsize"} =>
        /\ SameList
        /\ Converted.inner < Pow2(Converted.len)

\* C21: Blong::from of a fixed-width list of length L returns, without a panic,
\* a Blong of length L on exactly ceil(L / INNER_SIZE) words whose flag i is
\* the source's flag i for every i < L.
C21_IntoBlong ==
    last.op \in {"from_b32", "from_b64", "from_b128", "from_bsize"} =>
        /\ last.ret = RetUnit
        /\ ls.kind = "long"
        /\ ls.len = src.len
        /\ Len(ls.inner) = WordsFor(src.len)
        /\ \A i \in 0..(src.len - 1) : get(ls, i) = get(src, i)

\* bit i of the words v, false where v has no such word
BitOfWords(v, i) ==
    IF i \div INNER_SIZE < Len(v)
    THEN Bit(Word(v, i \div INNER_SIZE), i % INNER_SIZE) = 1
    ELSE FALSE

\* C22: initialize(inner, len) of a fixed-width variant returns, for every word
\* and every len, a list of length min(len, MAX_LENGTH) whose flag i is bit i of
\* inner and whose storage is clear at and above that length;
\* Blong::initialize(words, len) returns a list of length len whose flag i is
\* bit i of the words, false where there is no word; and
\* initialize(x.as_inner(), x.len()) == x for every reachable list x.
C22_Initialize ==
    /\ (last.op = "initialize" /\ ls.kind = "fixed") =>
            /\ last.ret = RetUnit
            /\ ls.len = Min(last.index, MAX_LENGTH)
            /\ \A i \in 0..(ls.len - 1) : get(ls, i) = RetSome(Bit(src, i) = 1)
            /\ ls.inner < Pow2(ls.len)
    /\ (last.op = "initialize" /\ ls.kind = "long") =>
            /\ last.ret = RetUnit
            /\ ls.len = last.index
            /\ \A i \in 0..(ls.len - 1) : get(ls, i) = RetSome(BitOfWords(src, i))
    /\ last.op = "reinitialize" =>
            /\ last.ret = RetUnit
            /\ ls = last.pre

\* C23: Blong::insert(index, flag) with index <= L (index = L at a word
\* boundary and an index below the top bit of a word with the last word full
\* included) completes without a panic and loses no flag: the length is L+1,
\* the flag at index is flag, the flags below index are unchanged and every flag
\* that was at i >= index is at i+1.
C23_BlongInsert ==
    (ls.kind = "long" /\ last.op = "insert" /\ last.index <= last.pre.len) =>
        /\ last.ret = RetUnit
        /\ ls.len = last.pre.len + 1
        /\ get(ls, last.index) = RetSome(last.flag)
        /\ SameFlags(last.pre, ls, 0, last.index, 0)
        /\ SameFlags(last.pre, ls, last.index, last.pre.len, 1)

\* C24: Blong::remove(index) with index < L (an index at the top bit of a word
\* and one in a word below the highest included) completes without a panic and
\* returns the flag that was at index; the length is L-1, the flags below index
\* are unchanged and every flag that was at i > index is at i-1.
C24_BlongRemove ==
    (ls.kind = "long" /\ last.op = "remove" /\ last.index < last.pre.len) =>
        /\ last.ret.tag = "Bool"
        /\ RetSome(last.ret.b) = get(last.pre, last.index)
        /\ ls.len = last.pre.len - 1
        /\ SameFlags(ls, last.pre, 0, last.index, 0)
        /\ SameFlags(ls, last.pre, last.index, ls.len, 1)

\* C25: a Blong that receives, from empty, any sequence of push, pop, insert
\* (index <= length), remove, set (index < length) and clear stays in step with
\* a plain sequence of flags that receives the same calls: no call panics, len()
\* is the length of the sequence, get(i) is Some of its i-th flag below the
\* length and None at the length.
C25_InStepWithVec ==
    /\ ~Panicked
    /\ len(ls) = Len(src)
    /\ \A i \in 0..(Len(src) - 1) : get(ls, i) = RetSome(src[i + 1])
    /\ get(ls, Len(src)) = RetNone

\* no backing word of the Blong l has a bit set at a position >= its length
ClearAboveLength(l) ==
    \A t \in 0..(Len(l.inner) - 1), b \in 0..(INNER_SIZE - 1) :
        t * INNER_SIZE + b >= l.len => Bit(Word(l.inner, t), b) = 0

\* C26: after any sequence of insert, remove, set, set_len, clear, push, pop,
\* AND / OR / XOR assignment, NOT and set difference from the empty Blong, every
\* bit of every backing word at a position >= length is zero.
C26_BlongAboveLengthClear ==
    (ls.kind = "long" /\ ~Panicked) => ClearAboveLength(ls)

\* the words of b that a has no word for are the words of l at the same places
ExtraWordsCopied(l, a, b) ==
    \A t \in Len(a.inner)..(Len(b.inner) - 1) :
        t < Len(l.inner) /\ Word(l.inner, t) = Word(b.inner, t)

\* C27: a ^= b on Blong lists has length max(len a, len b) and flag i = flag i
\* of a XOR flag i of b (a missing flag is false); the extra words of a longer
\* b are copied in order; it does not panic; and b ^= a has the same flags.
C27_BlongXor ==
    (ls.kind = "long" /\ last.op = "bitxor_assign") =>
        LET a == last.pre
            b == src
            xored(i) == FlagOrFalse(a, i) # FlagOrFalse(b, i)
            swapped == Blong_bitxor_assign(b, a)
        IN  /\ last.ret = RetUnit
            /\ HasFlags(ls, Max(a.len, b.len), xored)
            /\ ExtraWordsCopied(ls, a, b)
            /\ swapped.ret = RetUnit
            /\ HasFlags(swapped.ls, ls.len, xored)

\* C28: a &= b and a |= b on Blong lists of any word counts have length
\* max(len a, len b) and flag i = flag i of a AND, respectively OR, flag i of b
\* (a missing flag is false); AND zeroes every word beyond the shorter operand,
\* OR copies the extra words of the longer one; neither reads out of bounds.
C28_BlongAndOr ==
    /\ (ls.kind = "long" /\ last.op = "bitand_assign") =>
           LET a == last.pre
               b == src
               anded(i) == FlagOrFalse(a, i) /\ FlagOrFalse(b, i)
           IN  /\ last.ret = RetUnit
               /\ HasFlags(ls, Max(a.len, b.len), anded)
               /\ \A t \in Min(Len(a.inner), Len(b.inner))..(Len(ls.inner) - 1) :
                      Word(ls.inner, t) = 0
    /\ (ls.kind = "long" /\ last.op = "bitor_assign") =>
           LET a == last.pre
               b == src
               ored(i) == FlagOrFalse(a, i) \/ FlagOrFalse(b, i)
           IN  /\ last.ret = RetUnit
               /\ HasFlags(ls, Max(a.len, b.len), ored)
               /\ ExtraWordsCopied(ls, a, b)
               /\ ExtraWordsCopied(ls, b, a)

\* C29: NOT of a Blong of length L (L = 0 and L a multiple of INNER_SIZE
\* included) completes without a panic with length L, the negated flags below
\* L and no bit of any backing word at a position >= L.
C29_BlongNot ==
    (ls.kind = "long" /\ last.op = "not") =>
        LET negated(i) == ~FlagOrFalse(last.pre, i)
        IN  /\ last.ret = RetUnit
            /\ HasFlags(ls, last.pre.len, negated)
            /\ ClearAboveLength(ls)

\* C30: ls[i] is the flag get(i) returns when i < length, and panics for every
\* i >= length, i = length included.
C30_Index ==
    last.op = "index" =>
        IF last.index < len(ls)
        THEN last.ret.tag = "Bool" /\ RetSome(last.ret.b) = get(ls, last.index)
        ELSE last.ret = RetPanic

====
